---- MODULE Spec2Model ----
(***************************************************************************)
(* A model of the jscodeshift-react-i18next codemod (src/transform.ts):    *)
(* the transform that extracts hardcoded strings of React components into  *)
(* a translation catalog and replaces them with t('unit.key') calls.       *)
(*                                                                         *)
(* Text is modelled character by character: a string is a sequence of      *)
(* one-character strings, so that trimming, whitespace collapsing,         *)
(* slugification and placeholder stripping are computed as the code        *)
(* computes them.                                                          *)
(***************************************************************************)
EXTENDS Integers, Sequences, FiniteSets, TLC

(***************************************************************************)
(* Characters and strings                                                  *)
(***************************************************************************)
UpperLetters ==
  <<"A", "B", "C", "D", "E", "F", "G", "H", "I", "J", "K", "L", "M",
    "N", "O", "P", "Q", "R", "S", "T", "U", "V", "W", "X", "Y", "Z">>

LowerLetters ==
  <<"a", "b", "c", "d", "e", "f", "g", "h", "i", "j", "k", "l", "m",
    "n", "o", "p", "q", "r", "s", "t", "u", "v", "w", "x", "y", "z">>

Digits == <<"0", "1", "2", "3", "4", "5", "6", "7", "8", "9">>

Range(s) == {s[i] : i \in DOMAIN s}

\* The regular-expression class \s, restricted to the characters used here.
IsSpace(c) == c \in {" ", "\n", "\t"}

\* The class [A-Za-z0-9].
IsAlnum(c) == c \in Range(UpperLetters) \cup Range(LowerLetters) \cup Range(Digits)

\* String.prototype.toLowerCase on one character.
toLowerCase(c) ==
  IF c \in Range(UpperLetters)
  THEN LowerLetters[CHOOSE i \in DOMAIN UpperLetters : UpperLetters[i] = c]
  ELSE c

RECURSIVE trimStart(_)
trimStart(s) ==
  IF s # <<>> /\ IsSpace(Head(s)) THEN trimStart(Tail(s)) ELSE s

RECURSIVE trimEnd(_)
trimEnd(s) ==
  IF s # <<>> /\ IsSpace(s[Len(s)]) THEN trimEnd(SubSeq(s, 1, Len(s) - 1)) ELSE s

\* String.prototype.trim
trim(s) == trimEnd(trimStart(s))

\* s.replace(/\s+/g, r): every maximal run of whitespace becomes r.
RECURSIVE replaceSpaceRuns(_, _)
replaceSpaceRuns(s, r) ==
  IF s = <<>> THEN <<>>
  ELSE IF IsSpace(Head(s)) THEN r \o replaceSpaceRuns(trimStart(s), r)
  ELSE <<Head(s)>> \o replaceSpaceRuns(Tail(s), r)

\* _.lowerFirst
lowerFirst(s) == IF s = <<>> THEN s ELSE <<toLowerCase(Head(s))>> \o Tail(s)

\* The decimal digits of a natural number (template string `${i + 1}`).
RECURSIVE numberToString(_)
numberToString(n) ==
  IF n < 10 THEN <<Digits[n + 1]>>
  ELSE numberToString(n \div 10) \o <<Digits[(n % 10) + 1]>>

(***************************************************************************)
(* Constants of the codemod                                                *)
(***************************************************************************)
TRANSLATION_KEY_MAX_LENGTH == 40

JSX_ATTRIBUTES_TO_TRANSLATE == {"alt", "aria-label", "title", "description"}

TEMPLATE_LITERAL_BLACKLIST == {"className", "href", "src", "key"}

\* Characters outside ASCII, and the quote, backquote and backslash, are
\* written by their code point.
BLACKLIST_TRANSLATION_CHARS ==
  [NUMBERS     |-> Range(Digits),
   CURRENCIES  |-> {"$", "U+20AC", "U+00A3", "U+00A5", "U+20BD", "U+20BA",
                    "U+20B9", "U+20A9", "U+20AA", "U+20B4"},
   PUNCTUATION |-> {".", ",", "!", "?", ":", ";", "'", "U+0022", "U+0060"},
   MATH        |-> {"+", "=", "-", "*", "/", "%", "<", ">"},
   BRACKETS    |-> {"(", ")", "[", "]", "{", "}", "U+00AB", "U+00BB"},
   SPECIAL     |-> {"@", "#", "$", "^", "&", "|", "U+005C", "~", "U+00B7", "U+00A9"},
   SEPARATORS  |-> {<<" ">>, <<>>, <<"-">>, <<"_">>}]

TRANSLATION_BLACKLIST ==
  {<<c>> : c \in BLACKLIST_TRANSLATION_CHARS.NUMBERS
                 \cup BLACKLIST_TRANSLATION_CHARS.CURRENCIES
                 \cup BLACKLIST_TRANSLATION_CHARS.PUNCTUATION
                 \cup BLACKLIST_TRANSLATION_CHARS.MATH
                 \cup BLACKLIST_TRANSLATION_CHARS.BRACKETS
                 \cup BLACKLIST_TRANSLATION_CHARS.SPECIAL}
  \cup BLACKLIST_TRANSLATION_CHARS.SEPARATORS

(***************************************************************************)
(* Key derivation and sanitizing                                           *)
(***************************************************************************)
\* slugify's character map, for the ASCII symbols it transliterates.
charMap(c) ==
  CASE c = "$" -> <<"d", "o", "l", "l", "a", "r">>
    [] c = "%" -> <<"p", "e", "r", "c", "e", "n", "t">>
    [] c = "&" -> <<"a", "n", "d">>
    [] c = "<" -> <<"l", "e", "s", "s">>
    [] c = ">" -> <<"g", "r", "e", "a", "t", "e", "r">>
    [] c = "|" -> <<"o", "r">>
    [] OTHER   -> <<c>>

\* The remove option: the characters * + ~ . ( ) ' " ! : @
slugifyRemove == {"*", "+", "~", ".", "(", ")", "'", "U+0022", "!", ":", "@"}

\* slugify's first step: each character is transliterated, the replacement
\* character '-' becomes a space, and removed characters are dropped.
RECURSIVE slugifyMap(_)
slugifyMap(s) ==
  IF s = <<>> THEN <<>>
  ELSE LET mapped == charMap(Head(s))
           appendChar == IF mapped = <<"-">> THEN <<" ">> ELSE mapped
       IN  SelectSeq(appendChar, LAMBDA c : c \notin slugifyRemove)
             \o slugifyMap(Tail(s))

\* slugify(text, {remove, lower: true, strict: true, trim: true})
slugify(text) ==
  LET strict  == SelectSeq(slugifyMap(text), LAMBDA c : IsAlnum(c) \/ IsSpace(c))
      dashed  == replaceSpaceRuns(trim(strict), <<"-">>)
  IN  [i \in DOMAIN dashed |-> toLowerCase(dashed[i])]

\* A variant that keeps one character more.
slice0Inclusive(s, n) == SubSeq(s, 1, IF Len(s) < n + 1 THEN Len(s) ELSE n + 1)

\* String.prototype.slice(0, n)
slice0(s, n) == SubSeq(s, 1, IF Len(s) < n THEN Len(s) ELSE n)

createTranslationKey(text) == slice0(slugify(text), TRANSLATION_KEY_MAX_LENGTH)

sanitizeText(text) == trim(replaceSpaceRuns(text, <<" ">>))

\* A variant that leaves the placeholders in the text.
keepPlaceholders(s) == s

\* value.replace(/\{\{.*?\}\}/g, ''): every span from "{{" to the first
\* following "}}" on the same line is removed.
RECURSIVE removePlaceholders(_)
removePlaceholders(s) ==
  IF s = <<>> THEN <<>>
  ELSE LET closes == {j \in 3..(Len(s) - 1) :
                        /\ s[j] = "}" /\ s[j + 1] = "}"
                        /\ \A k \in 3..(j - 1) : s[k] # "\n"}
       IN  IF Len(s) >= 4 /\ s[1] = "{" /\ s[2] = "{" /\ closes # {}
           THEN LET j == CHOOSE j \in closes : \A k \in closes : j <= k
                IN  removePlaceholders(SubSeq(s, j + 2, Len(s)))
           ELSE <<Head(s)>> \o removePlaceholders(Tail(s))

\* A variant that matches the untrimmed text against the blacklist.
isTranslatableUntrimmed(text) == text \notin TRANSLATION_BLACKLIST

\* The filter of the text pass (the classifier `isTranslatable`).
isTranslatable(text) == trim(text) \notin TRANSLATION_BLACKLIST


(***************************************************************************)
(* The syntax tree                                                         *)
(*                                                                         *)
(* A file is its import declarations, its function-like constructs and,    *)
(* in document order, the nodes the three passes look for.  A construct    *)
(* names the construct that encloses it (0 at top level); a node names the *)
(* innermost construct that encloses it in `scope` (0 at top level).       *)
(***************************************************************************)
useTranslationHook == "const { t } = useTranslation()"

returnStatement == "return"

\* t(...) arguments: a string literal, or the object literal of bindings.
Literal(v) == [type |-> "Literal", value |-> v, properties |-> <<>>]

ObjectExpression(props) ==
  [type |-> "ObjectExpression", value |-> <<>>, properties |-> props]

Node(type, scope, name, valueType, value, quasis, expressions, tagged) ==
  [type |-> type, scope |-> scope, name |-> name, valueType |-> valueType,
   value |-> value, quasis |-> quasis, expressions |-> expressions,
   tagged |-> tagged, tArgs |-> <<>>]

JSXText(value, scope) ==
  Node("JSXText", scope, "", "", value, <<>>, <<>>, FALSE)

\* name="value"
JSXAttributeString(name, value, scope) ==
  Node("JSXAttribute", scope, name, "StringLiteral", value, <<>>, <<>>, FALSE)

\* name={`...`}
JSXAttributeTemplate(name, tpl, scope) ==
  Node("JSXAttribute", scope, name, "TemplateLiteral", <<>>,
       tpl.quasis, tpl.expressions, FALSE)

\* name={expression}, an expression that holds no string or template
JSXAttributeExpression(name, scope) ==
  Node("JSXAttribute", scope, name, "Expression", <<>>, <<>>, <<>>, FALSE)

\* A template literal that is not directly the value of an attribute; tagged
\* when its parent is a TaggedTemplateExpression.
TemplateLiteral(tpl, tagged, scope) ==
  Node("TemplateLiteral", scope, "", "", <<>>, tpl.quasis, tpl.expressions, tagged)

Identifier(source) == [type |-> "Identifier", source |-> source]

MemberExpression(source) == [type |-> "MemberExpression", source |-> source]

CallExpression(source) == [type |-> "CallExpression", source |-> source]

Function(type, id, parentId, parent, block, body) ==
  [type |-> type, id |-> id, parentId |-> parentId, parent |-> parent,
   block |-> block, body |-> body]

ImportDeclaration(source, specifiers) ==
  [source |-> source, specifiers |-> specifiers]

(***************************************************************************)
(* File operations                                                         *)
(*                                                                         *)
(* The catalog file is missing, unparseable, or a JSON object whose top    *)
(* level holds unit entries (`units`) and entries nested under root keys   *)
(* (`roots`).  The catalog in memory is the value readTranslations         *)
(* returned: an object, or undefined.                                      *)
(***************************************************************************)
EmptyObject == <<>>

Has(obj, k) == k \in DOMAIN obj

Get(obj, k) == IF Has(obj, k) THEN obj[k] ELSE EmptyObject

Object(units, roots) == [defined |-> TRUE, units |-> units, roots |-> roots]

Undefined == [defined |-> FALSE, units |-> EmptyObject, roots |-> EmptyObject]

JsonFile(units, roots) ==
  [exists |-> TRUE, valid |-> TRUE, units |-> units, roots |-> roots]

MissingFile ==
  [exists |-> FALSE, valid |-> FALSE, units |-> EmptyObject, roots |-> EmptyObject]

MalformedFile ==
  [exists |-> TRUE, valid |-> FALSE, units |-> EmptyObject, roots |-> EmptyObject]

\* A variant without the catch: a failure leaves no catalog.
readTranslationsWithoutCatch(file, translationRoot) ==
  IF ~file.exists \/ ~file.valid THEN Undefined
  ELSE IF translationRoot # ""
       THEN IF Has(file.roots, translationRoot)
            THEN Object(file.roots[translationRoot], EmptyObject)
            ELSE Undefined
       ELSE Object(file.units, file.roots)

readTranslations(file, translationRoot) ==
  IF ~file.exists \/ ~file.valid THEN Object(EmptyObject, EmptyObject)
  ELSE IF translationRoot # ""
       THEN IF Has(file.roots, translationRoot)
            THEN Object(file.roots[translationRoot], EmptyObject)
            ELSE Undefined
       ELSE Object(file.units, file.roots)

\* A variant that writes the catalog at the top level whatever the root key.
writeTranslationsUnwrapped(translations, translationRoot) ==
  JsonFile(translations.units, translations.roots)

\* stringify drops a property whose value is undefined.
writeTranslations(translations, translationRoot) ==
  IF translationRoot # ""
  THEN IF translations.defined
       THEN JsonFile(EmptyObject, translationRoot :> translations.units)
       ELSE JsonFile(EmptyObject, EmptyObject)
  ELSE JsonFile(translations.units, translations.roots)

\* A variant that forgets the entries the unit already has.
addTranslationWithoutSpread(translations, componentName, key, value) ==
  [translations EXCEPT !.units = (componentName :> (key :> value)) @@ @]

\* A variant that keeps the value a key already has.
addTranslationKeepingFirst(translations, componentName, key, value) ==
  [translations EXCEPT
     !.units = (componentName :> (Get(@, componentName) @@ (key :> value))) @@ @]

\* translations[componentName] = {...translations[componentName], [key]: value}
addTranslation(translations, componentName, key, value) ==
  [translations EXCEPT
     !.units = (componentName :> ((key :> value) @@ Get(@, componentName))) @@ @]

(***************************************************************************)
(* AST utilities                                                           *)
(***************************************************************************)
UnknownFunction ==
  <<"U", "n", "k", "n", "o", "w", "n", "F", "u", "n", "c", "t", "i", "o", "n">>

\* An absent identifier (undefined) is the empty name.
getFunctionName(fd) ==
  IF fd.type = "ArrowFunctionExpression"
  THEN IF fd.parentId # <<>> THEN fd.parentId ELSE UnknownFunction
  ELSE IF fd.type = "FunctionDeclaration"
       THEN IF fd.id # <<>> THEN fd.id ELSE UnknownFunction
       ELSE UnknownFunction

\* A variant that stops at a function expression as well.
RECURSIVE getClosestFunctionASTOfAnyForm(_, _)
getClosestFunctionASTOfAnyForm(functions, path) ==
  IF path = 0 THEN 0
  ELSE IF functions[path].type \in {"FunctionDeclaration", "ArrowFunctionExpression",
                                    "FunctionExpression"}
       THEN path
       ELSE getClosestFunctionASTOfAnyForm(functions, functions[path].parent)

\* The walk up the parent paths, seen at the function-like constructs on the
\* way: every other ancestor fails both checks and is passed over.
RECURSIVE getClosestFunctionAST(_, _)
getClosestFunctionAST(functions, path) ==
  IF path = 0 THEN 0
  ELSE IF functions[path].type \in {"FunctionDeclaration", "ArrowFunctionExpression"}
       THEN path
       ELSE getClosestFunctionAST(functions, functions[path].parent)

\* The constructs inside construct f, f included.
RECURSIVE IsInside(_, _, _)
IsInside(functions, g, f) ==
  g # 0 /\ (g = f \/ IsInside(functions, functions[g].parent, f))

(***************************************************************************)
(* Translation setup utilities                                             *)
(***************************************************************************)
\* insertBefore on the first import declaration: nothing when there is none.
ensureTranslationImport(imports, importPackage) ==
  LET hasImport == \E i \in DOMAIN imports : imports[i].source = importPackage
  IN  IF hasImport \/ imports = <<>> THEN imports
      ELSE <<ImportDeclaration(importPackage, {"useTranslation"})>> \o imports

\* A variant that looks for the call in the whole file.
hasHookInFile(functions, f) ==
  \E g \in DOMAIN functions : useTranslationHook \in Range(functions[g].body)

hasHook(functions, f) ==
  \E g \in DOMAIN functions :
    IsInside(functions, g, f) /\ useTranslationHook \in Range(functions[g].body)

\* A variant that inserts the binding without looking for an existing call.
ensureTranslationHookAlways(functions, f) ==
  IF functions[f].block
  THEN [functions EXCEPT ![f].body = <<useTranslationHook>> \o @]
  ELSE [functions EXCEPT ![f].block = TRUE,
                         ![f].body = <<useTranslationHook, returnStatement>>]

ensureTranslationHook(functions, f) ==
  IF hasHook(functions, f) THEN functions
  ELSE IF functions[f].block
       THEN [functions EXCEPT ![f].body = <<useTranslationHook>> \o @]
       ELSE [functions EXCEPT ![f].block = TRUE,
                              ![f].body = <<useTranslationHook, returnStatement>>]

(***************************************************************************)
(* Transformers: what one visit computes                                   *)
(***************************************************************************)
\* A variant that leaves the unit name out of the call's key.
translationKeyWithoutUnit(componentName, key) == key

\* `${componentName}.${key}`
translationKey(componentName, key) == componentName \o <<".">> \o key

\* source.split('.').pop()
RECURSIVE lastSegment(_)
lastSegment(source) ==
  IF "." \notin Range(source) THEN source
  ELSE lastSegment(SubSeq(source,
                          1 + (CHOOSE i \in DOMAIN source : source[i] = "."
                                 /\ \A k \in 1..(i - 1) : source[k] # "."),
                          Len(source)))

positionalName(i) == <<"v", "a", "r">> \o numberToString(i)

\* A variant whose positional names count from 0.
varNameFromZero(expression, i) ==
  IF expression.type = "Identifier" THEN expression.source
  ELSE IF expression.type = "MemberExpression"
       THEN IF lastSegment(expression.source) # <<>>
            THEN lastSegment(expression.source)
            ELSE positionalName(i - 1)
       ELSE positionalName(i - 1)

\* A variant that names every expression by its position.
varNamePositional(expression, i) == positionalName(i)

\* The name of the i-th expression of a template (i counts from 1).
varName(expression, i) ==
  IF expression.type = "Identifier" THEN expression.source
  ELSE IF expression.type = "MemberExpression"
       THEN IF lastSegment(expression.source) # <<>>
            THEN lastSegment(expression.source)
            ELSE positionalName(i)
       ELSE positionalName(i)

\* The text accumulated by the loop over the expressions, and the last quasi.
RECURSIVE templateText(_, _, _)
templateText(quasis, expressions, i) ==
  IF i > Len(expressions) THEN quasis[i]
  ELSE quasis[i] \o <<"{", "{">> \o varName(expressions[i], i) \o <<"}", "}">>
         \o templateText(quasis, expressions, i + 1)

\* A variant that binds each name to an identifier of that name.
expressionPropertiesByName(expressions) ==
  [i \in DOMAIN expressions |->
     [key       |-> varName(expressions[i], i),
      value     |-> Identifier(varName(expressions[i], i)),
      shorthand |-> expressions[i].type = "Identifier"
                      /\ expressions[i].source = varName(expressions[i], i)]]

expressionProperties(expressions) ==
  [i \in DOMAIN expressions |->
     [key       |-> varName(expressions[i], i),
      value     |-> expressions[i],
      shorthand |-> expressions[i].type = "Identifier"
                      /\ expressions[i].source = varName(expressions[i], i)]]

templateArguments(componentName, key, expressions) ==
  IF Len(expressions) > 0
  THEN <<Literal(translationKey(componentName, key)),
         ObjectExpression(expressionProperties(expressions))>>
  ELSE <<Literal(translationKey(componentName, key))>>

\* The node a visited node is replaced with.
replaceJSXText(node, tArgs) ==
  [node EXCEPT !.type = "JSXExpressionContainer", !.valueType = "CallExpression",
               !.value = <<>>, !.tArgs = tArgs]

\* A variant that puts the key in as a string literal, without the call.
replaceJSXAttributeWithLiteral(node, tArgs) ==
  [node EXCEPT !.value = tArgs[1].value]

replaceJSXAttribute(node, tArgs) ==
  [node EXCEPT !.valueType = "CallExpression", !.value = <<>>, !.tArgs = tArgs]

replaceTemplateLiteral(node, tArgs) ==
  IF node.type = "JSXAttribute"
  THEN [node EXCEPT !.valueType = "CallExpression",
                    !.quasis = <<>>, !.expressions = <<>>, !.tArgs = tArgs]
  ELSE [node EXCEPT !.type = "CallExpression",
                    !.quasis = <<>>, !.expressions = <<>>, !.tArgs = tArgs]

\* The filters of the three passes.
isJSXText(node) == node.type = "JSXText" /\ isTranslatable(node.value)

\* A variant that takes string literals of every attribute name.
isTranslatableAttributeAnyName(node) ==
  node.type = "JSXAttribute" /\ node.valueType = "StringLiteral"

\* A variant that also asks the classifier about the literal.
isTranslatableAttributeClassified(node) ==
  /\ node.type = "JSXAttribute"
  /\ node.valueType = "StringLiteral"
  /\ node.name \in JSX_ATTRIBUTES_TO_TRANSLATE
  /\ isTranslatable(node.value)

isTranslatableAttribute(node) ==
  /\ node.type = "JSXAttribute"
  /\ node.valueType = "StringLiteral"
  /\ node.name \in JSX_ATTRIBUTES_TO_TRANSLATE

\* A variant that does not exclude tagged templates.
isTemplateLiteralTaggedToo(node) ==
  \/ node.type = "TemplateLiteral"
  \/ /\ node.type = "JSXAttribute"
     /\ node.valueType = "TemplateLiteral"
     /\ node.name \notin TEMPLATE_LITERAL_BLACKLIST

isTemplateLiteral(node) ==
  \/ node.type = "TemplateLiteral" /\ ~node.tagged
  \/ /\ node.type = "JSXAttribute"
     /\ node.valueType = "TemplateLiteral"
     /\ node.name \notin TEMPLATE_LITERAL_BLACKLIST

\* The paths a pass visits: the nodes that pass its filter, in document order.
RECURSIVE find(_, _, _)
find(nodes, Filter(_), i) ==
  IF i > Len(nodes) THEN <<>>
  ELSE (IF Filter(nodes[i]) THEN <<i>> ELSE <<>>) \o find(nodes, Filter, i + 1)

(***************************************************************************)
(* Inputs: the strings, templates, files, catalogs and options the runs    *)
(* are started with.                                                       *)
(***************************************************************************)
MaxNodes == 2

MaxRuns == 2

sWelcome == <<"W", "e", "l", "c", "o", "m", "e">>

sTestComponent == <<"T", "e", "s", "t", "C", "o", "m", "p", "o", "n", "e", "n", "t">>

sHelloWorld == <<"H", "e", "l", "l", "o", " ", "W", "o", "r", "l", "d">>

\* Sanitizes to "Hello, World!", which derives the key of "Hello World".
sHelloWorldSpaced == <<"\n", " ", " ", "H", "e", "l", "l", "o", ",", " ", " ", "W", "o", "r", "l", "d", "!", " ">>

sPrice == <<"P", "r", "i", "c", "e", ":", " ", "$", "5">>

\* Its slug has 51 characters, the 40th a letter.
sLongText ==
  <<"T", "h", "i", "s", " ", "i", "s", " ", "a", " ", "v", "e", "r", "y", " ", "l", "o", "n", "g", " ", "t", "e", "x", "t", " ", "t", "h", "a", "t", " ", "n", "e", "e", "d", "s", " ", "t", "o", " ", "b", "e", " ", "t", "r", "u", "n", "c", "a", "t", "e", "d">>

\* Its slug has 49 characters, the 40th a separator.
sLongTextSeparator ==
  <<"T", "h", "i", "s", " ", "i", "s", " ", "a", " ", "v", "e", "r", "y", " ", "l", "o", "n", "g", " ", "t", "e", "x", "t", " ", "t", "h", "a", "t", " ", "h", "a", "s", " ", "t", "o", " ", "b", "e", " ", "t", "r", "u", "n", "c", "a", "t", "e", "d">>

sBonjour == <<"B", "o", "n", "j", "o", "u", "r">>

sBye == <<"B", "y", "e">>

kWelcome == <<"w", "e", "l", "c", "o", "m", "e">>

kProfile == <<"p", "r", "o", "f", "i", "l", "e">>

kHelloWorld == <<"h", "e", "l", "l", "o", "-", "w", "o", "r", "l", "d">>

kBye == <<"b", "y", "e">>

Template(quasis, expressions) == [quasis |-> quasis, expressions |-> expressions]

\* `Hello World`
tplPlain == Template(<<sHelloWorld>>, <<>>)

\* `$`
tplSymbol == Template(<<<<"$">>>>, <<>>)

\* `Hello ${name}`
tplIdentifier == Template(<<<<"H", "e", "l", "l", "o", " ">>, <<>>>>, <<Identifier(<<"n", "a", "m", "e">>)>>)

\* `Hello ${other}`
tplOther == Template(<<<<"H", "e", "l", "l", "o", " ">>, <<>>>>, <<Identifier(<<"o", "t", "h", "e", "r">>)>>)

\* `Hello ${user.name}, role ${user.role}`
tplMembers ==
  Template(<<<<"H", "e", "l", "l", "o", " ">>, <<",", " ", "r", "o", "l", "e", " ">>, <<>>>>,
           <<MemberExpression(<<"u", "s", "e", "r", ".", "n", "a", "m", "e">>), MemberExpression(<<"u", "s", "e", "r", ".", "r", "o", "l", "e">>)>>)

\* `Last login: ${formatDate(currentDate)}`
tplCall ==
  Template(<<<<"L", "a", "s", "t", " ", "l", "o", "g", "i", "n", ":", " ">>, <<>>>>, <<CallExpression(<<"f", "o", "r", "m", "a", "t", "D", "a", "t", "e", "(", "c", "u", "r", "r", "e", "n", "t", "D", "a", "t", "e", ")">>)>>)

\* `You have ${user.count} as of ${formatDate(currentDate)}`
tplMixed ==
  Template(<<<<"Y", "o", "u", " ", "h", "a", "v", "e", " ">>, <<" ", "a", "s", " ", "o", "f", " ">>, <<>>>>,
           <<MemberExpression(<<"u", "s", "e", "r", ".", "c", "o", "u", "n", "t">>),
             CallExpression(<<"f", "o", "r", "m", "a", "t", "D", "a", "t", "e", "(", "c", "u", "r", "r", "e", "n", "t", "D", "a", "t", "e", ")">>)>>)

\* `${a.name} and ${b.name}`
tplSameNames ==
  Template(<<<<>>, <<" ", "a", "n", "d", " ">>, <<>>>>,
           <<MemberExpression(<<"a", ".", "n", "a", "m", "e">>), MemberExpression(<<"b", ".", "n", "a", "m", "e">>)>>)

\* `Hello ${items[0]}`
tplComputed == Template(<<<<"H", "e", "l", "l", "o", " ">>, <<>>>>, <<MemberExpression(<<"i", "t", "e", "m", "s", "[", "0", "]">>)>>)

\* `Hello ${items[{a:{}}[k]]}`
tplBraces == Template(<<<<"H", "e", "l", "l", "o", " ">>, <<>>>>, <<MemberExpression(<<"i", "t", "e", "m", "s", "[", "{", "a", ":", "{", "}", "}", "[", "k", "]", "]">>)>>)

\* `Hello ${var2} ${load()} ${save()}`
tplPositional ==
  Template(<<<<"H", "e", "l", "l", "o", " ">>, <<" ">>, <<" ">>, <<>>>>,
           <<Identifier(<<"v", "a", "r", "2">>), CallExpression(<<"l", "o", "a", "d", "(", ")">>),
             CallExpression(<<"s", "a", "v", "e", "(", ")">>)>>)

\* `${count}`
tplOnlyExpression == Template(<<<<>>, <<>>>>, <<Identifier(<<"c", "o", "u", "n", "t">>)>>)

Templates ==
  {tplPlain, tplSymbol, tplIdentifier, tplOther, tplMembers, tplCall, tplMixed,
   tplSameNames, tplComputed, tplBraces, tplPositional, tplOnlyExpression}

\* The parser yields no empty JSXText.
Texts ==
  {<<"4", "2">>, <<"$">>, <<" ", " ", " ">>, <<"4">>, sHelloWorld, sPrice, sHelloWorldSpaced,
   sLongText, sLongTextSeparator}

AttributeNames ==
  {"alt", "title", "placeholder", "aria-label", "aria-description",
   "description", "id", "className", "href", "src", "key"}

\* Every shape of node, in the constructs `scopes`.
AllNodes(scopes) ==
  {JSXText(v, sc) : v \in Texts, sc \in scopes}
  \cup {JSXAttributeString(n, v, sc) :
          n \in AttributeNames, v \in {sHelloWorld}, sc \in scopes}
  \cup {JSXAttributeString(n, v, sc) :
          n \in {"alt", "id"}, v \in {<<>>, <<"$">>, sHelloWorldSpaced}, sc \in scopes}
  \cup {JSXAttributeExpression(n, sc) : n \in {"title", "id", "className"}, sc \in scopes}
  \cup {JSXAttributeTemplate(n, t, sc) :
          n \in AttributeNames, t \in {tplPlain, tplIdentifier}, sc \in scopes}
  \cup {TemplateLiteral(t, FALSE, sc) : t \in Templates, sc \in scopes}
  \cup {TemplateLiteral(t, TRUE, sc) : t \in {tplPlain, tplIdentifier}, sc \in scopes}

\* The shapes that files of several nodes are made of.
CoreNodes(scopes) ==
  {JSXText(sHelloWorld, 0)}
  \cup {JSXText(v, sc) : v \in {sHelloWorld, sHelloWorldSpaced}, sc \in scopes}
  \cup {JSXAttributeString("alt", sHelloWorld, sc) : sc \in scopes}
  \cup {TemplateLiteral(tplIdentifier, FALSE, sc) : sc \in scopes}

CoreFiles(scopes) ==
  UNION {[1..n -> CoreNodes(scopes)] : n \in 0..MaxNodes}

\* function Welcome() { return ... }
fnWelcome == Function("FunctionDeclaration", sWelcome, <<>>, 0, TRUE, <<returnStatement>>)

\* function Welcome() { const { t } = useTranslation(); return ... }
fnWelcomeWithHook ==
  Function("FunctionDeclaration", sWelcome, <<>>, 0, TRUE,
           <<useTranslationHook, returnStatement>>)

\* const TestComponent = () => ...
fnTestComponent ==
  Function("ArrowFunctionExpression", <<>>, sTestComponent, 0, FALSE, <<>>)

\* const Welcome = function () { return ... }
fnExpression ==
  Function("FunctionExpression", <<>>, sWelcome, 0, TRUE, <<returnStatement>>)

\* items.map((item) => ...), inside construct `parent`
fnCallback(parent) ==
  Function("ArrowFunctionExpression", <<>>, <<>>, parent, FALSE, <<>>)

\* render() { return ... } of a class or an object, inside construct `parent`
fnMethod(parent) ==
  Function("FunctionExpression", <<>>, <<>>, parent, TRUE, <<returnStatement>>)

Layouts ==
  {<<fnWelcome>>, <<fnWelcomeWithHook>>, <<fnTestComponent>>, <<fnExpression>>,
   <<fnWelcome, fnCallback(1)>>, <<fnTestComponent, fnMethod(1)>>}

importReact == ImportDeclaration("react", {"React"})

ImportLists ==
  {<<>>, <<importReact>>,
   <<importReact, ImportDeclaration("react-i18next", {"useTranslation"})>>,
   <<ImportDeclaration("react-i18next", {"Trans"}), importReact>>}

Options(translationFilePath, translationRoot, importName) ==
  [translationFilePath |-> translationFilePath,
   translationRoot |-> translationRoot, importName |-> importName]

priorUnits ==
  (kWelcome :> ((kHelloWorld :> sBonjour) @@ (kBye :> sBye)))
    @@ (kProfile :> (kBye :> sBye))

otherUnits == kProfile :> (kHelloWorld :> sBonjour)

\* The options of a run and the catalog file it finds.
Catalogs ==
  {<<Options("translations.json", "", "react-i18next"), f>> :
     f \in {MissingFile, MalformedFile, JsonFile(EmptyObject, EmptyObject),
            JsonFile(priorUnits, EmptyObject)}}
  \cup
  {<<Options("translations.json", "en", "react-i18next"), f>> :
     f \in {MissingFile, MalformedFile,
            JsonFile(EmptyObject, "fr" :> otherUnits),
            JsonFile(EmptyObject, "en" :> EmptyObject),
            JsonFile(EmptyObject, ("en" :> priorUnits) @@ ("fr" :> otherUnits))}}
  \cup
  {<<Options("", "", "react-i18next"), JsonFile(priorUnits, EmptyObject)>>,
   <<Options("translations.json", "", ""), JsonFile(priorUnits, EmptyObject)>>}

Input(options, disk, imports, functions, nodes) ==
  [options |-> options, disk |-> disk,
   file |-> [imports |-> imports, functions |-> functions, nodes |-> nodes]]

\* Templates with the chunks of `Hello ${name}` and other expressions.
HelloTemplates == {tplIdentifier, tplOther, tplComputed, tplBraces}

\* Files of up to MaxNodes core nodes, in every layout with every import list
\* and in function Welcome with every catalog; files of one node of any
\* shape, in function Welcome with every catalog; and files of two templates
\* with the same chunks, in function Welcome.
Inputs ==
  {Input(Options("translations.json", "", "react-i18next"), MissingFile, i, l, n) :
     i \in ImportLists,
     <<l, n>> \in UNION {{<<l, n>> : n \in CoreFiles(1..Len(l))} : l \in Layouts}}
  \cup
  {Input(c[1], c[2], <<importReact>>, <<fnWelcome>>, n) :
     c \in Catalogs, n \in CoreFiles({1})}
  \cup
  {Input(c[1], c[2], <<importReact>>, <<fnWelcome>>, <<n>>) :
     c \in Catalogs, n \in AllNodes({0, 1})}
  \cup
  {Input(Options("translations.json", "", "react-i18next"), MissingFile,
         <<importReact>>, <<fnWelcome>>,
         <<TemplateLiteral(t1, FALSE, 1), TemplateLiteral(t2, FALSE, 1)>>) :
     t1 \in HelloTemplates, t2 \in HelloTemplates}

(***************************************************************************)
(* State                                                                   *)
(***************************************************************************)
VARIABLES
  options,       \* the options the transform is invoked with
  disk,          \* the catalog file
  file,          \* the parsed source the transform is invoked on
  root,          \* the tree of the run, as the passes have changed it
  translations,  \* the catalog in memory
  pc,            \* where the run is: "start", a pass, "done" or "error"
  work,          \* the paths the current pass has still to visit
  run,           \* 1 for the first run, 2 for a run on its output, ...
  previous,      \* the output of the run before, and the catalog file as
                 \* this run found it
  loaded,        \* history: what readTranslations returned to this run
  log,           \* history: the entries this run added, in order
  writes,        \* history: how often this run has written the catalog file
  parked         \* the other invocation on the same catalog file, when the
                 \* tool runs two at once: its state while this one steps

vars ==
  <<options, disk, file, root, translations, pc, work, run, previous, loaded, log,
    writes, parked>>

\* A single invocation has no other beside it.
NoWorker == <<>>

NoTree == [imports |-> <<>>, functions |-> <<>>, nodes |-> <<>>]

Init ==
  \E input \in Inputs :
    /\ options = input.options
    /\ disk = input.disk
    /\ file = input.file
    /\ root = NoTree
    /\ translations = Undefined
    /\ pc = "start"
    /\ work = <<>>
    /\ run = 1
    /\ previous = [root |-> NoTree, disk |-> input.disk]
    /\ loaded = Undefined
    /\ log = <<>>
    /\ writes = 0
    /\ parked = NoWorker

(***************************************************************************)
(* The run                                                                 *)
(***************************************************************************)
\* A variant that does not look at the options.
TransformWithoutOptions ==
  /\ pc = "start"
  /\ translations' = readTranslations(disk, options.translationRoot)
  /\ loaded' = translations'
  /\ root' = file
  /\ work' = find(file.nodes, isJSXText, 1)
  /\ pc' = "JSXText"
  /\ UNCHANGED <<options, disk, file, run, previous, log, writes, parked>>

\* transform, up to the first pass's search: the options are checked, the
\* catalog is read, the source is parsed.
Transform ==
  /\ pc = "start"
  /\ IF options.translationFilePath = "" \/ options.importName = ""
     THEN /\ pc' = "error"
          /\ UNCHANGED <<translations, loaded, root, work>>
     ELSE /\ translations' = readTranslations(disk, options.translationRoot)
          /\ loaded' = translations'
          /\ root' = file
          /\ work' = find(file.nodes, isJSXText, 1)
          /\ pc' = "JSXText"
  /\ UNCHANGED <<options, disk, file, run, previous, log, writes, parked>>

\* A variant that ensures the import before it looks for the function.
SkipAfterImport ==
  /\ work' = Tail(work)
  /\ root' = [root EXCEPT
                !.imports = ensureTranslationImport(root.imports, options.importName)]
  /\ UNCHANGED <<options, disk, file, translations, pc, run, previous,
                 loaded, log, writes, parked>>

\* A visit that finds no enclosing function returns at once.
Skip ==
  /\ work' = Tail(work)
  /\ UNCHANGED <<options, disk, file, root, translations, pc, run, previous,
                 loaded, log, writes, parked>>

\* The common part of a visit: the entry is added, import and hook are
\* ensured, the node is replaced.  Reading a property of an undefined catalog
\* throws.
Extract(path, functionAST, componentName, key, value, replacement) ==
  /\ IF ~translations.defined
     THEN /\ pc' = "error"
          /\ UNCHANGED <<translations, root, work, log>>
     ELSE /\ translations' = addTranslation(translations, componentName, key, value)
          /\ root' =
               [imports   |-> ensureTranslationImport(root.imports, options.importName),
                functions |-> ensureTranslationHook(root.functions, functionAST),
                nodes     |-> [root.nodes EXCEPT ![path] = replacement]]
          /\ work' = Tail(work)
          /\ log' = Append(log, [path |-> path, componentName |-> componentName,
                                 key |-> key, value |-> value])
          /\ pc' = pc
  /\ UNCHANGED <<options, disk, file, run, previous, loaded, writes, parked>>

VisitJSXText ==
  /\ pc = "JSXText"
  /\ work # <<>>
  /\ LET path == Head(work)
         node == root.nodes[path]
         functionAST == getClosestFunctionAST(root.functions, node.scope)
     IN  IF functionAST = 0 THEN Skip
         ELSE LET componentName ==
                    lowerFirst(getFunctionName(root.functions[functionAST]))
                  value == sanitizeText(node.value)
                  key == createTranslationKey(value)
              IN  Extract(path, functionAST, componentName, key, value,
                          replaceJSXText(node,
                            <<Literal(translationKey(componentName, key))>>))

\* A variant that writes the catalog file as soon as the text pass is over.
FindJSXAttributesSaving ==
  /\ pc = "JSXText"
  /\ work = <<>>
  /\ pc' = "JSXAttribute"
  /\ work' = find(root.nodes, isTranslatableAttribute, 1)
  /\ disk' = writeTranslations(translations, options.translationRoot)
  /\ writes' = writes + 1
  /\ UNCHANGED <<options, file, root, translations, run, previous, loaded, log,
                 parked>>

FindJSXAttributes ==
  /\ pc = "JSXText"
  /\ work = <<>>
  /\ pc' = "JSXAttribute"
  /\ work' = find(root.nodes, isTranslatableAttribute, 1)
  /\ UNCHANGED <<options, disk, file, root, translations, run, previous, loaded, log, writes, parked>>

VisitJSXAttribute ==
  /\ pc = "JSXAttribute"
  /\ work # <<>>
  /\ LET path == Head(work)
         node == root.nodes[path]
         functionAST == getClosestFunctionAST(root.functions, node.scope)
     IN  IF node.valueType # "StringLiteral" \/ functionAST = 0 THEN Skip
         ELSE LET componentName ==
                    lowerFirst(getFunctionName(root.functions[functionAST]))
                  value == sanitizeText(node.value)
                  key == createTranslationKey(value)
              IN  Extract(path, functionAST, componentName, key, value,
                          replaceJSXAttribute(node,
                            <<Literal(translationKey(componentName, key))>>))

FindTemplateLiterals ==
  /\ pc = "JSXAttribute"
  /\ work = <<>>
  /\ pc' = "TemplateLiteral"
  /\ work' = find(root.nodes, isTemplateLiteral, 1)
  /\ UNCHANGED <<options, disk, file, root, translations, run, previous, loaded, log, writes, parked>>

VisitTemplateLiteral ==
  /\ pc = "TemplateLiteral"
  /\ work # <<>>
  /\ LET path == Head(work)
         node == root.nodes[path]
         functionAST == getClosestFunctionAST(root.functions, node.scope)
     IN  IF functionAST = 0 THEN Skip
         ELSE LET componentName ==
                    lowerFirst(getFunctionName(root.functions[functionAST]))
                  text == templateText(node.quasis, node.expressions, 1)
                  value == sanitizeText(text)
                  key == createTranslationKey(removePlaceholders(value))
              IN  Extract(path, functionAST, componentName, key, value,
                          replaceTemplateLiteral(node,
                            templateArguments(componentName, key, node.expressions)))

\* A variant that reads the catalog file again and adds its entries to it.
SaveMerged ==
  /\ pc = "TemplateLiteral"
  /\ work = <<>>
  /\ LET found == readTranslations(disk, options.translationRoot).units
         merged == [u \in DOMAIN found \cup DOMAIN translations.units |->
                      Get(translations.units, u) @@ Get(found, u)]
     IN  disk' = writeTranslations([translations EXCEPT !.units = merged],
                                   options.translationRoot)
  /\ writes' = writes + 1
  /\ pc' = IF translations.defined THEN "done" ELSE "error"
  /\ UNCHANGED <<options, file, root, translations, work, run, previous, loaded, log,
                 parked>>

\* The end of transform: the catalog is written, the summary is computed
\* (Object.keys of an undefined catalog throws) and the source is printed.
Save ==
  /\ pc = "TemplateLiteral"
  /\ work = <<>>
  /\ disk' = writeTranslations(translations, options.translationRoot)
  /\ writes' = writes + 1
  /\ pc' = IF translations.defined THEN "done" ELSE "error"
  /\ UNCHANGED <<options, file, root, translations, work, run, previous, loaded, log,
                 parked>>

\* The tool is run again, on the source it printed and the catalog it saved.
Rerun ==
  /\ pc = "done"
  /\ run < MaxRuns
  /\ previous' = [root |-> root, disk |-> disk]
  /\ file' = root
  /\ run' = run + 1
  /\ pc' = "start"
  /\ root' = NoTree
  /\ translations' = Undefined
  /\ loaded' = Undefined
  /\ work' = <<>>
  /\ log' = <<>>
  /\ writes' = 0
  /\ UNCHANGED <<options, disk, parked>>

Next ==
  \/ Transform
  \/ VisitJSXText
  \/ FindJSXAttributes
  \/ VisitJSXAttribute
  \/ FindTemplateLiterals
  \/ VisitTemplateLiteral
  \/ Save
  \/ Rerun

Spec == Init /\ [][Next]_vars

(***************************************************************************)
(* Two invocations on one catalog file                                     *)
(*                                                                         *)
(* jscodeshift calls transform once for each file, in several worker       *)
(* processes when it is given several files.  Each call reads the catalog  *)
(* file at its start and writes it at its end, so the calls of two workers *)
(* meet at the file only.  One invocation steps at a time; the state of    *)
(* the other is kept in `parked`.                                          *)
(***************************************************************************)
Worker(f, rt, tr, p, w, r, pr, ld, lg, wr) ==
  [file |-> f, root |-> rt, translations |-> tr, pc |-> p, work |-> w,
   run |-> r, previous |-> pr, loaded |-> ld, log |-> lg, writes |-> wr]

\* The invocation that is stepping.
Active ==
  Worker(file, root, translations, pc, work, run, previous, loaded, log, writes)

\* Files of one candidate, in function Welcome or TestComponent, beside a
\* catalog file that is missing or has entries.
SharedInputs ==
  {Input(Options("translations.json", "", "react-i18next"), d, <<importReact>>,
         <<f>>, <<n>>) :
     d \in {MissingFile, JsonFile(priorUnits, EmptyObject)},
     f \in {fnWelcome, fnTestComponent},
     n \in {JSXText(sHelloWorld, 1), JSXText(sHelloWorldSpaced, 1),
            JSXAttributeString("alt", sHelloWorld, 1),
            TemplateLiteral(tplIdentifier, FALSE, 1)}}

InitShared ==
  \E a \in SharedInputs, b \in SharedInputs :
    /\ a.disk = b.disk
    /\ options = a.options
    /\ disk = a.disk
    /\ file = a.file
    /\ root = NoTree
    /\ translations = Undefined
    /\ pc = "start"
    /\ work = <<>>
    /\ run = 1
    /\ previous = [root |-> NoTree, disk |-> a.disk]
    /\ loaded = Undefined
    /\ log = <<>>
    /\ writes = 0
    /\ parked = Worker(b.file, NoTree, Undefined, "start", <<>>, 1,
                       [root |-> NoTree, disk |-> b.disk], Undefined, <<>>, 0)

\* The other worker process gets the processor.
Switch ==
  /\ parked # NoWorker
  /\ parked.pc \notin {"done", "error"}
  /\ parked' = Active
  /\ file' = parked.file
  /\ root' = parked.root
  /\ translations' = parked.translations
  /\ pc' = parked.pc
  /\ work' = parked.work
  /\ run' = parked.run
  /\ previous' = parked.previous
  /\ loaded' = parked.loaded
  /\ log' = parked.log
  /\ writes' = parked.writes
  /\ UNCHANGED <<options, disk>>

SharedNext ==
  \/ Transform
  \/ VisitJSXText
  \/ FindJSXAttributes
  \/ VisitJSXAttribute
  \/ FindTemplateLiterals
  \/ VisitTemplateLiteral
  \/ Save
  \/ Switch

SharedSpec == InitShared /\ [][SharedNext]_vars

(***************************************************************************)
(* Properties                                                              *)
(***************************************************************************)
Passes == {"JSXText", "JSXAttribute", "TemplateLiteral"}

\* The function that owns node i of the input, 0 when there is none.
OwnerOf(i) == getClosestFunctionAST(file.functions, file.nodes[i].scope)

UnitName(i) == lowerFirst(getFunctionName(file.functions[OwnerOf(i)]))

IsTemplateNode(node) ==
  \/ node.type = "TemplateLiteral"
  \/ node.type = "JSXAttribute" /\ node.valueType = "TemplateLiteral"

\* The text of a candidate: the value of a text node or string literal, the
\* chunks and {{name}} placeholders of a template.
CandidateText(node) ==
  IF IsTemplateNode(node) THEN templateText(node.quasis, node.expressions, 1)
  ELSE node.value

\* Node i has been replaced by this run.
Replaced(i) == i \in DOMAIN root.nodes /\ root.nodes[i] # file.nodes[i]

LogPaths == {log[k].path : k \in DOMAIN log}

\* What the next run would load.
Saved == readTranslations(disk, options.translationRoot).units

Entry(catalog, unit, key) ==
  IF Has(catalog, unit) /\ Has(catalog[unit], key) THEN <<catalog[unit][key]>> ELSE <<>>

(***************************************************************************)
(* C1                                                                      *)
(***************************************************************************)
KeyOfSanitizedText(node) == createTranslationKey(sanitizeText(CandidateText(node)))

KeyWithoutPlaceholders(node) ==
  IF IsTemplateNode(node)
  THEN createTranslationKey(removePlaceholders(sanitizeText(CandidateText(node))))
  ELSE createTranslationKey(sanitizeText(CandidateText(node)))

CallKeyAndCatalog(Key(_)) ==
  /\ \A i \in DOMAIN root.nodes :
       Replaced(i) =>
         /\ i \in LogPaths
         /\ root.nodes[i].tArgs # <<>>
         /\ root.nodes[i].tArgs[1]
              = Literal(UnitName(i) \o <<".">> \o Key(file.nodes[i]))
  /\ log # <<>> =>
       LET i == log[Len(log)].path
       IN  Entry(translations.units, UnitName(i), Key(file.nodes[i]))
             = <<sanitizeText(CandidateText(file.nodes[i]))>>

HookImports ==
  {i \in DOMAIN root.imports :
     /\ root.imports[i].source = options.importName
     /\ "useTranslation" \in root.imports[i].specifiers}

\* C2: once the run has replaced a candidate, the tree holds exactly one
\* import of useTranslation from the configured package, also when the file
\* had no import statement.
C2_ImportExactlyOnce ==
  (pc \in Passes \cup {"done"} /\ log # <<>>) => Cardinality(HookImports) = 1

(***************************************************************************)
(* C3                                                                      *)
(***************************************************************************)
\* This step calls ensureTranslationHook on function f.
EnsuresHook(f) ==
  /\ pc \in Passes
  /\ Len(log') = Len(log) + 1
  /\ getClosestFunctionAST(root.functions, root.nodes[log'[Len(log')].path].scope) = f

ContainsHookCall(f) ==
  \E g \in DOMAIN root.functions :
    IsInside(root.functions, g, f) /\ useTranslationHook \in Range(root.functions[g].body)

\* C3: ensureTranslationHook on a function that contains no call of
\* useTranslation makes the binding the first statement of its body, after
\* turning an expression body into a block that returns the expression; on a
\* function that contains the call (as after a first call) it changes nothing.
C3_HookInserted ==
  [][\A f \in DOMAIN root.functions :
       EnsuresHook(f) =>
         IF ContainsHookCall(f)
         THEN root'.functions = root.functions
         ELSE root'.functions =
                [root.functions EXCEPT
                   ![f].block = TRUE,
                   ![f].body = <<useTranslationHook>>
                                 \o (IF root.functions[f].block
                                     THEN root.functions[f].body
                                     ELSE <<returnStatement>>)]]_vars

\* Two candidates of one expression-bodied function have been replaced and
\* its body is the block of the binding and the return.
C3_Witness ==
  /\ Len(log) >= 2
  /\ OwnerOf(log[1].path) = OwnerOf(log[2].path)
  /\ ~file.functions[OwnerOf(log[1].path)].block
  /\ root.functions[OwnerOf(log[1].path)].block
  /\ root.functions[OwnerOf(log[1].path)].body = <<useTranslationHook, returnStatement>>

(***************************************************************************)
(* C4                                                                      *)
(***************************************************************************)
\* C4: a run on the output of the run before, with the catalog that run
\* saved, ends without error and leaves the source and the catalog file as
\* they were: no node, import or hook binding changes and no catalog entry
\* is added or changed.
C4_Idempotent ==
  run >= 2 =>
    /\ pc # "error"
    /\ pc = "done" => root = previous.root /\ disk = previous.disk
    /\ log = <<>>

\* A second run has ended on a source in which the first run replaced a
\* node and inserted an import and a hook binding.
C4_Witness ==
  /\ run = 2
  /\ pc = "done"
  /\ \E i \in DOMAIN root.nodes : root.nodes[i].tArgs # <<>>
  /\ \E f \in DOMAIN root.functions : useTranslationHook \in Range(root.functions[f].body)
  /\ Len(root.imports) = 2
  /\ disk.exists /\ disk.units # EmptyObject

(***************************************************************************)
(* C5                                                                      *)
(***************************************************************************)
LoadedEntries ==
  UNION {{<<u, k>> : k \in DOMAIN loaded.units[u]} : u \in DOMAIN loaded.units}

\* The last entry this run added under unit u and key k, if any.
LastAdded(u, k) ==
  LET at == {n \in DOMAIN log : log[n].componentName = u /\ log[n].key = k}
  IN  IF at = {} THEN <<>>
      ELSE <<log[CHOOSE n \in at : \A m \in at : m <= n].value>>

\* C5 as stated: every entry loaded at the start of a run is in the saved
\* catalog with the same text.
C5_NoEntryClobbered ==
  pc = "done" =>
    \A e \in LoadedEntries :
      Entry(Saved, e[1], e[2]) = <<loaded.units[e[1]][e[2]]>>

\* C5 as amended: every entry loaded at the start of a run is in the saved
\* catalog, with the same text unless the run extracted a candidate with the
\* same unit name and key, and then with the text of the last such candidate.
C5_EntryKeptOrOverwritten ==
  pc = "done" =>
    \A e \in LoadedEntries :
      Entry(Saved, e[1], e[2]) =
        (IF LastAdded(e[1], e[2]) # <<>> THEN LastAdded(e[1], e[2])
         ELSE <<loaded.units[e[1]][e[2]]>>)

\* A run has ended that overwrote the loaded welcome.hello-world and kept
\* the loaded welcome.bye.
C5_Witness ==
  /\ pc = "done"
  /\ Entry(loaded.units, kWelcome, kHelloWorld) = <<sBonjour>>
  /\ Entry(Saved, kWelcome, kHelloWorld) = <<sHelloWorld>>
  /\ Entry(Saved, kWelcome, kBye) = <<sBye>>
  /\ Entry(Saved, kProfile, kBye) = <<sBye>>

(***************************************************************************)
(* C6                                                                      *)
(***************************************************************************)
ReadmeTranslatableAttributes ==
  {"alt", "title", "placeholder", "aria-label", "aria-description"}

\* C6: after the run every attribute named alt, title, placeholder,
\* aria-label or aria-description whose value is a string literal and which
\* lies inside a function is a lookup call, and its sanitized text has been
\* recorded.
C6_ReadmeAttributesRewritten ==
  (pc = "done" /\ run = 1) =>
    \A i \in DOMAIN file.nodes :
      ( /\ file.nodes[i].type = "JSXAttribute"
        /\ file.nodes[i].valueType = "StringLiteral"
        /\ file.nodes[i].name \in ReadmeTranslatableAttributes
        /\ OwnerOf(i) # 0 )
      => /\ root.nodes[i].valueType = "CallExpression"
         /\ \E n \in DOMAIN log :
              log[n].path = i /\ log[n].value = sanitizeText(file.nodes[i].value)

(***************************************************************************)
(* C7                                                                      *)
(***************************************************************************)
\* An attribute the attribute pass does not take: its name is not in the
\* allow-list, or its value is not a string literal.
NotForAttributePass(node) ==
  /\ node.type = "JSXAttribute"
  /\ \/ node.name \notin {"alt", "aria-label", "title", "description"}
     \/ node.valueType # "StringLiteral"

Untouched(i) == ~Replaced(i) /\ i \notin LogPaths

DeniedTemplate(node) ==
  \/ /\ node.type = "JSXAttribute"
     /\ node.valueType = "TemplateLiteral"
     /\ node.name \in {"className", "href", "src", "key"}
  \/ node.type = "TemplateLiteral" /\ node.tagged

\* C8: a template that is the value of an attribute named className, href,
\* src or key, or that is tagged, is never replaced and never recorded.
C8_DeniedTemplateUntouched ==
  run = 1 =>
    \A i \in DOMAIN file.nodes : DeniedTemplate(file.nodes[i]) => Untouched(i)

\* A run has ended on a file with a tagged template of translatable text
\* inside a function.
C8_Witness ==
  /\ pc = "done"
  /\ run = 1
  /\ \E i \in DOMAIN file.nodes :
       /\ file.nodes[i] = TemplateLiteral(tplIdentifier, TRUE, 1)
       /\ OwnerOf(i) = 1
       /\ isTranslatable(sanitizeText(CandidateText(file.nodes[i])))
       /\ root.nodes[i] = file.nodes[i]

(***************************************************************************)
(* C9                                                                      *)
(***************************************************************************)
\* Q0 {{name1}} Q1 ... {{namen}} Qn, for the names of the properties.
RECURSIVE Interleave(_, _, _)
Interleave(quasis, props, i) ==
  IF i > Len(props) THEN quasis[i]
  ELSE quasis[i] \o <<"{", "{">> \o props[i].key \o <<"}", "}">>
         \o Interleave(quasis, props, i + 1)

RecordedValue(i) == log[CHOOSE n \in DOMAIN log : log[n].path = i].value

\* The bindings of a replaced template: one property per expression, in
\* order, with the expression as value, and the recorded text made of the
\* chunks and the property names.
Decomposed(i, props) ==
  /\ Len(props) = Len(file.nodes[i].expressions)
  /\ \A j \in DOMAIN props : props[j].value = file.nodes[i].expressions[j]
  /\ RecordedValue(i) = sanitizeText(Interleave(file.nodes[i].quasis, props, 1))

TextPassLeavesAndRewrites(kept, rewritten) ==
  (pc = "done" /\ run = 1) =>
    \A i \in DOMAIN file.nodes :
      (file.nodes[i].type = "JSXText" /\ OwnerOf(i) # 0) =>
        /\ file.nodes[i].value \in kept => root.nodes[i] = file.nodes[i]
        /\ file.nodes[i].value \in rewritten =>
             root.nodes[i].type = "JSXExpressionContainer" /\ i \in LogPaths

\* C10 as stated: the classifier rejects "", "42", "$" and a whitespace-only
\* text and accepts "Hello World" and "Price: $5".
C10_ClassifierRejects42 ==
  /\ ~isTranslatable(<<>>)
  /\ TextPassLeavesAndRewrites({<<"4", "2">>, <<"$">>, <<" ", " ", " ">>}, {sHelloWorld, sPrice})

\* C10 as amended: the classifier rejects "", a single digit such as "4", "$"
\* and a whitespace-only text, and accepts "42", "Hello World" and "Price: $5".
C10_ClassifierExactMatch ==
  /\ ~isTranslatable(<<>>)
  /\ TextPassLeavesAndRewrites({<<"4">>, <<"$">>, <<" ", " ", " ">>}, {<<"4", "2">>, sHelloWorld, sPrice})

\* A run has ended on the text 42 inside a function, replaced by a call.
C10_Witness ==
  /\ pc = "done"
  /\ run = 1
  /\ \E i \in DOMAIN file.nodes :
       /\ file.nodes[i] = JSXText(<<"4", "2">>, 1)
       /\ root.nodes[i].tArgs = <<Literal(<<"w", "e", "l", "c", "o", "m", "e", ".", "4", "2">>)>>

(***************************************************************************)
(* C11                                                                     *)
(***************************************************************************)
\* The catalog that the entries of the log, added in order to the catalog
\* that was loaded, leave for unit u and key k.
UpsertedEntry(u, k) ==
  IF LastAdded(u, k) # <<>> THEN LastAdded(u, k) ELSE Entry(loaded.units, u, k)

CatalogKeys(catalog) ==
  UNION {{<<u, k>> : k \in DOMAIN catalog[u]} : u \in DOMAIN catalog}

LogKeys == {<<log[n].componentName, log[n].key>> : n \in DOMAIN log}

\* C11: the catalog in memory holds one entry for each unit name and key, and
\* it is the text of the candidate added last under that unit name and key
\* (so two candidates of one unit with the same key leave the text of the
\* later one); a unit absent from the loaded catalog is created by its first
\* entry; every other key of the unit and every other unit is as loaded.
C11_UpsertLastWins ==
  translations.defined =>
    /\ CatalogKeys(translations.units) = CatalogKeys(loaded.units) \cup LogKeys
    /\ \A e \in CatalogKeys(translations.units) :
         Entry(translations.units, e[1], e[2]) = UpsertedEntry(e[1], e[2])
    /\ DOMAIN translations.units
         = DOMAIN loaded.units \cup {log[n].componentName : n \in DOMAIN log}

\* Two candidates of Welcome with the key hello-world and different texts
\* have been added to a catalog that was loaded with welcome.hello-world,
\* welcome.bye and profile.bye: the text of the second is the entry.
C11_Witness ==
  /\ Len(log) = 2
  /\ log[1].componentName = kWelcome /\ log[2].componentName = kWelcome
  /\ log[1].key = kHelloWorld /\ log[2].key = kHelloWorld
  /\ log[1].value # log[2].value
  /\ Entry(loaded.units, kWelcome, kHelloWorld) = <<sBonjour>>
  /\ Entry(translations.units, kWelcome, kHelloWorld) = <<log[2].value>>
  /\ Entry(translations.units, kWelcome, kBye) = <<sBye>>
  /\ Entry(translations.units, kProfile, kBye) = <<sBye>>

(***************************************************************************)
(* C12                                                                     *)
(***************************************************************************)
\* The run was started with both required options.
OptionsComplete == options.translationFilePath # "" /\ options.importName # ""

\* The catalog file this run found cannot be read or cannot be parsed.
LoadFails == ~previous.disk.exists \/ ~previous.disk.valid

\* How far the run is: the pass it is in and the candidates the pass has
\* still to visit.
Stage ==
  CASE pc = "start" -> 0
    [] pc = "JSXText" -> 1
    [] pc = "JSXAttribute" -> 2
    [] pc = "TemplateLiteral" -> 3
    [] OTHER -> 4

\* C12: when the catalog file is missing or is not JSON, readTranslations
\* returns the empty catalog and the run never throws; the catalog it builds
\* and saves holds the entries of this run and nothing else; and every step
\* takes the run on, to the next candidate or the next pass, until it is
\* done.
C12_LoadFailureIsEmptyCatalog ==
  /\ []((OptionsComplete /\ LoadFails) =>
         /\ pc # "error"
         /\ pc # "start" =>
              /\ loaded = Object(EmptyObject, EmptyObject)
              /\ CatalogKeys(translations.units) = LogKeys
         /\ pc \in Passes => \A n \in DOMAIN work : work[n] \in DOMAIN root.nodes
         /\ pc = "done" =>
              /\ disk.exists /\ disk.valid
              /\ CatalogKeys(Saved) = LogKeys)
  /\ [][(OptionsComplete /\ LoadFails /\ pc # "done") =>
          /\ pc' # "error"
          /\ \/ Stage' > Stage
             \/ Stage' = Stage /\ Len(work') < Len(work)]_vars

\* A run that found a malformed catalog file has ended and has saved the
\* one entry it extracted.
C12_Witness ==
  /\ pc = "done"
  /\ run = 1
  /\ previous.disk = MalformedFile
  /\ Len(log) = 1
  /\ Saved = (kWelcome :> (kHelloWorld :> sHelloWorld))

(***************************************************************************)
(* C13                                                                     *)
(***************************************************************************)
\* C13: a run without the catalog path or without the import package name
\* throws at its first step: the catalog is never read, no pass starts, no
\* tree is produced, nothing is recorded and the catalog file stays as it
\* was found.
C13_MissingOptionFailsFirst ==
  ~OptionsComplete =>
    /\ pc \in {"start", "error"}
    /\ loaded = Undefined
    /\ translations = Undefined
    /\ root = NoTree
    /\ work = <<>>
    /\ log = <<>>
    /\ disk = previous.disk

\* A run without the import package name has thrown, on a source with a
\* candidate and beside a catalog file with entries.
C13_Witness ==
  /\ pc = "error"
  /\ options.importName = ""
  /\ options.translationFilePath # ""
  /\ disk = JsonFile(priorUnits, EmptyObject)
  /\ \E i \in DOMAIN file.nodes : isJSXText(file.nodes[i]) /\ OwnerOf(i) # 0

(***************************************************************************)
(* C14                                                                     *)
(***************************************************************************)
\* The catalog file is written by a step that leaves the finished template
\* pass, and the passes follow each other in the order text, attributes,
\* templates.
WrittenAfterThePasses ==
  /\ (writes' # writes \/ disk' # disk) =>
       \/ pc = "TemplateLiteral" /\ work = <<>> /\ writes = 0 /\ writes' = 1
       \/ pc = "done" /\ pc' = "start" /\ writes' = 0 /\ disk' = disk
  /\ (pc' # pc /\ pc' # "error" /\ pc # "done") => Stage' = Stage + 1
  /\ (pc' # pc /\ pc' # "error" /\ pc \in Passes) => work = <<>>

IsCandidate(node) ==
  \/ node.type = "JSXText"
  \/ /\ node.type = "JSXAttribute"
     /\ node.valueType = "StringLiteral"
     /\ node.name \in JSX_ATTRIBUTES_TO_TRANSLATE
  \/ IsTemplateNode(node) /\ ~DeniedTemplate(node)

NotTranslatable(node) == ~isTranslatable(sanitizeText(CandidateText(node)))

\* Node i has been replaced by a lookup call and its sanitized text recorded.
Recorded(i) ==
  /\ Replaced(i)
  /\ \E n \in DOMAIN log :
       /\ log[n].path = i
       /\ log[n].value = sanitizeText(CandidateText(file.nodes[i]))

\* C15 as stated: after a run, every candidate of a function whose sanitized
\* text is not translatable is unchanged and has no entry, in all three
\* passes.
C15_EveryPassClassifies ==
  (pc = "done" /\ run = 1) =>
    \A i \in DOMAIN file.nodes :
      (IsCandidate(file.nodes[i]) /\ OwnerOf(i) # 0 /\ NotTranslatable(file.nodes[i]))
        => Untouched(i)

\* C15 as amended: only the text pass asks the classifier.  After a run, a
\* text node of a function whose sanitized text is not translatable is
\* unchanged and has no entry; an allow-listed attribute literal and a
\* template candidate of a function are replaced and recorded whatever
\* their text, and so also when it is not translatable.
C15_OnlyTextPassClassifies ==
  (pc = "done" /\ run = 1) =>
    \A i \in DOMAIN file.nodes :
      (IsCandidate(file.nodes[i]) /\ OwnerOf(i) # 0) =>
        IF file.nodes[i].type = "JSXText"
        THEN IF NotTranslatable(file.nodes[i]) THEN Untouched(i) ELSE Recorded(i)
        ELSE Recorded(i)

\* A run has ended that replaced alt="$" in a function and recorded "$" under
\* the key dollar.
C15_Witness ==
  /\ pc = "done"
  /\ run = 1
  /\ \E i \in DOMAIN file.nodes :
       /\ file.nodes[i] = JSXAttributeString("alt", <<"$">>, 1)
       /\ NotTranslatable(file.nodes[i])
       /\ root.nodes[i].valueType = "CallExpression"
       /\ Entry(Saved, kWelcome, <<"d", "o", "l", "l", "a", "r">>) = <<<<"$">>>>

(***************************************************************************)
(* C16                                                                     *)
(***************************************************************************)
\* The source text after its last dot, the whole text when it has none.
AfterLastDot(source) ==
  LET dots == {i \in DOMAIN source : source[i] = "."}
  IN  IF dots = {} THEN source
      ELSE SubSeq(source, 1 + (CHOOSE i \in dots : \A k \in dots : k <= i),
                  Len(source))

\* The name of the member a member access reads last: the index expression
\* of a computed access x[...], the name after the last dot otherwise.
LastAccessedMember(source) ==
  IF source # <<>> /\ source[Len(source)] = "]" /\ "[" \in Range(source)
  THEN LET opens == {i \in DOMAIN source : source[i] = "["}
           open == CHOOSE i \in opens : \A k \in opens : k <= i
       IN  SubSeq(source, open + 1, Len(source) - 1)
  ELSE AfterLastDot(source)

\* "var" and the decimal digits of i, for the indexes the inputs have.
PositionalNameOf(i) == <<"v", "a", "r">> \o <<Digits[i + 1]>>

\* The bindings of every replaced template are named by NameOf, in order,
\* bound to the expressions as they were, and shorthand for identifiers only.
BindingsNamedBy(NameOf(_, _)) ==
  \A i \in DOMAIN root.nodes :
    (IsTemplateNode(file.nodes[i]) /\ Replaced(i) /\ file.nodes[i].expressions # <<>>) =>
      LET expressions == file.nodes[i].expressions
          properties == root.nodes[i].tArgs[2].properties
      IN  /\ DOMAIN properties = DOMAIN expressions
          /\ \A n \in DOMAIN expressions :
               /\ properties[n].key = NameOf(expressions[n], n)
               /\ properties[n].value = expressions[n]
               /\ properties[n].shorthand = (expressions[n].type = "Identifier")

MemberName(expression, n) ==
  CASE expression.type = "Identifier" -> expression.source
    [] expression.type = "MemberExpression" -> LastAccessedMember(expression.source)
    [] OTHER -> PositionalNameOf(n)

SourceTailName(expression, n) ==
  CASE expression.type = "Identifier" -> expression.source
    [] expression.type = "MemberExpression" -> AfterLastDot(expression.source)
    [] OTHER -> PositionalNameOf(n)

\* C16 as stated: a binding is named by the identifier when the expression
\* is a bare identifier (and is shorthand exactly then), by the last accessed
\* member when it is a member access, and by "var" and its 1-based index
\* otherwise.
C16_NamedByLastMember == BindingsNamedBy(MemberName)

\* C16 as amended: a binding is named by the identifier when the expression
\* is a bare identifier (and is shorthand exactly then); when it is a member
\* access, by the text of its source after the last dot, which is the last
\* accessed member for a dotted access and the whole source, items[0], for
\* the computed access items[0]; and by "var" and its 1-based index
\* otherwise.
C16_NamedBySourceTail == BindingsNamedBy(SourceTailName)

\* The template `You have ${user.count} as of ${formatDate(currentDate)}`
\* has been replaced by a call with the bindings count and var2.
C16_Witness ==
  \E i \in DOMAIN root.nodes :
    /\ file.nodes[i] = TemplateLiteral(tplMixed, FALSE, 1)
    /\ Replaced(i)
    /\ root.nodes[i].tArgs[2].properties[1].key = <<"c", "o", "u", "n", "t">>
    /\ root.nodes[i].tArgs[2].properties[2].key = <<"v", "a", "r", "2">>
    /\ ~root.nodes[i].tArgs[2].properties[1].shorthand

(***************************************************************************)
(* C17                                                                     *)
(***************************************************************************)
\* The key under which node i was recorded.
RecordedKey(i) == log[CHOOSE n \in DOMAIN log : log[n].path = i].key

\* Two templates of the input, in the same function, with the same chunks
\* and other expressions, both replaced.
SameChunks(i, j) ==
  /\ i # j
  /\ IsTemplateNode(file.nodes[i]) /\ IsTemplateNode(file.nodes[j])
  /\ Replaced(i) /\ Replaced(j)
  /\ OwnerOf(i) = OwnerOf(j)
  /\ file.nodes[i].quasis = file.nodes[j].quasis
  /\ file.nodes[i].expressions # file.nodes[j].expressions

\* A binding name of node i holds "}}".
ClosesPlaceholder(i) ==
  \E n \in DOMAIN file.nodes[i].expressions :
    LET name == SourceTailName(file.nodes[i].expressions[n], n)
    IN  \E k \in 1..(Len(name) - 1) : name[k] = "}" /\ name[k + 1] = "}"

\* C17 as stated: two templates of one function with the same chunks and
\* different expressions are recorded under the same key.
C17_KeyIgnoresExpressions ==
  \A i, j \in DOMAIN root.nodes : SameChunks(i, j) => RecordedKey(i) = RecordedKey(j)

\* C17 as amended: two templates of one function with the same chunks and
\* different expressions are recorded under the same key when no binding
\* name of either holds "}}"; a name that does, the source of a computed
\* member access such as items[{a:{}}[k]], ends the removed span early and
\* leaves its rest in the key.
C17_KeyIgnoresWellFormedNames ==
  \A i, j \in DOMAIN root.nodes :
    (SameChunks(i, j) /\ ~ClosesPlaceholder(i) /\ ~ClosesPlaceholder(j))
      => RecordedKey(i) = RecordedKey(j)

\* `Hello ${name}` and `Hello ${other}` of function Welcome have both been
\* replaced by a call with the key welcome.hello.
C17_Witness ==
  /\ Len(file.nodes) = 2
  /\ Replaced(1) /\ Replaced(2)
  /\ file.nodes[1] = TemplateLiteral(tplIdentifier, FALSE, 1)
  /\ file.nodes[2] = TemplateLiteral(tplOther, FALSE, 1)
  /\ root.nodes[1].tArgs[1] = Literal(<<"w", "e", "l", "c", "o", "m", "e", ".", "h", "e", "l", "l", "o">>)
  /\ root.nodes[2].tArgs[1] = root.nodes[1].tArgs[1]
  /\ root.nodes[1].tArgs[2] # root.nodes[2].tArgs[2]

(***************************************************************************)
(* C18                                                                     *)
(***************************************************************************)
\* The slug the key of log entry n is cut from.
SlugOf(n) ==
  LET node == file.nodes[log[n].path]
  IN  slugify(IF IsTemplateNode(node) THEN removePlaceholders(log[n].value)
              ELSE log[n].value)

\* C18 as stated: every key has at most 40 characters and does not end with
\* the separator.
C18_KeyCutAndTrimmed ==
  \A n \in DOMAIN log :
    /\ Len(log[n].key) <= 40
    /\ log[n].key # <<>> => log[n].key[Len(log[n].key)] # "-"

\* C18 as amended: every key is the first 40 characters of the slug, the
\* whole slug when it has no more; nothing is trimmed after the cut, so the
\* key ends with the separator when the 40th character of the slug is one.
C18_KeyCutAtMaxLength ==
  \A n \in DOMAIN log :
    /\ Len(log[n].key) <= 40
    /\ log[n].key = SubSeq(SlugOf(n), 1, Len(log[n].key))
    /\ Len(log[n].key) = (IF Len(SlugOf(n)) < 40 THEN Len(SlugOf(n)) ELSE 40)

\* A text whose slug has a separator as its 40th character has been
\* recorded, under a key of 40 characters that ends with the separator.
C18_Witness ==
  \E n \in DOMAIN log :
    /\ log[n].value = sLongTextSeparator
    /\ Len(SlugOf(n)) = 49
    /\ Len(log[n].key) = 40
    /\ log[n].key[40] = "-"

(***************************************************************************)
(* C19                                                                     *)
(***************************************************************************)
\* C19: a candidate without an owning function is never replaced and never
\* recorded; and in a run on a source none of whose candidates has an owning
\* function, no import and no hook binding is inserted, nothing is recorded
\* and the catalog stays as loaded.
C19_NoOwnerNoEffect ==
  pc \in Passes \cup {"done"} =>
    /\ \A i \in DOMAIN file.nodes :
         OwnerOf(i) = 0 => root.nodes[i] = file.nodes[i] /\ i \notin LogPaths
    /\ (\A i \in DOMAIN file.nodes : OwnerOf(i) = 0) =>
         /\ root = file
         /\ log = <<>>
         /\ translations = loaded

\* A run has ended on a source whose only function is a function
\* expression: its text and its template, which the passes visited, are as
\* they were, beside an import list that has no import of the package.
C19_Witness ==
  /\ pc = "done"
  /\ run = 1
  /\ file.functions = <<fnExpression>>
  /\ file.imports = <<importReact>>
  /\ Len(file.nodes) = 2
  /\ file.nodes[1] = JSXText(sHelloWorld, 1)
  /\ file.nodes[2] = TemplateLiteral(tplIdentifier, FALSE, 1)
  /\ root = file
  /\ disk = JsonFile(EmptyObject, EmptyObject)

(***************************************************************************)
(* C20                                                                     *)
(***************************************************************************)
\* r is the nearest construct of one of the forms `types` that encloses
\* node i, and 0 exactly when no construct of these forms encloses it.
NearestOfForm(i, r, types) ==
  LET scope == file.nodes[i].scope
      enclosing == {g \in DOMAIN file.functions :
                      IsInside(file.functions, scope, g)
                        /\ file.functions[g].type \in types}
  IN  IF enclosing = {} THEN r = 0
      ELSE /\ r \in enclosing
           /\ \A g \in enclosing : IsInside(file.functions, r, g)

\* The owner found for every node is the nearest enclosing construct of the
\* forms `types`, and the unit name of every recorded node is its name.
OwnerIsNearestOfForm(types) ==
  /\ \A i \in DOMAIN file.nodes : NearestOfForm(i, OwnerOf(i), types)
  /\ \A n \in DOMAIN log :
       /\ OwnerOf(log[n].path) # 0
       /\ log[n].componentName = UnitName(log[n].path)

\* C20 as stated: the owner is the nearest enclosing function declaration,
\* arrow function or function expression, and there is none only when no
\* function construct encloses the node.
C20_NearestFunctionOfAnyForm ==
  OwnerIsNearestOfForm({"FunctionDeclaration", "ArrowFunctionExpression",
                        "FunctionExpression"})

\* C20 as amended: the owner is the nearest enclosing function declaration
\* or arrow function; a function expression is passed over, so a node inside
\* one belongs to the declaration or arrow function around it, and has no
\* owner when there is none around it.
C20_NearestDeclarationOrArrow ==
  OwnerIsNearestOfForm({"FunctionDeclaration", "ArrowFunctionExpression"})

\* A text inside a function expression inside the arrow function
\* TestComponent has been recorded under the unit name testComponent.
C20_Witness ==
  /\ file.functions = <<fnTestComponent, fnMethod(1)>>
  /\ \E n \in DOMAIN log :
       /\ file.nodes[log[n].path] = JSXText(sHelloWorld, 2)
       /\ OwnerOf(log[n].path) = 1
       /\ log[n].componentName = lowerFirst(sTestComponent)

(***************************************************************************)
(* C21                                                                     *)
(***************************************************************************)
\* Both invocations have ended.
AllDone == parked # NoWorker /\ pc = "done" /\ parked.pc = "done"

\* The last entry of the log lg under unit u and key k, if any.
LastAddedIn(lg, u, k) ==
  LET at == {n \in DOMAIN lg : lg[n].componentName = u /\ lg[n].key = k}
  IN  IF at = {} THEN <<>>
      ELSE <<lg[CHOOSE n \in at : \A m \in at : m <= n].value>>

\* The catalog file holds, for every entry of the log lg, the text of an
\* entry that one of the two invocations extracted under its unit and key.
Persisted(lg) ==
  \A n \in DOMAIN lg :
    LET e == Entry(Saved, lg[n].componentName, lg[n].key)
    IN  /\ e # <<>>
        /\ \E w \in {Active, parked} : \E m \in DOMAIN w.log :
             /\ w.log[m].componentName = lg[n].componentName
             /\ w.log[m].key = lg[n].key
             /\ e = <<w.log[m].value>>

\* The catalog file is what the invocation `last` wrote: what it loaded and
\* the entries it extracted.  It holds the entries of `other` as well when
\* `last` loaded the catalog that `other` had saved.
SavedBy(last, other) ==
  /\ Saved = last.translations.units
  /\ \A e \in CatalogKeys(Saved) \cup CatalogKeys(last.loaded.units) :
       Entry(Saved, e[1], e[2]) =
         (IF LastAddedIn(last.log, e[1], e[2]) # <<>>
          THEN LastAddedIn(last.log, e[1], e[2])
          ELSE Entry(last.loaded.units, e[1], e[2]))
  /\ \A n \in DOMAIN last.log :
       Entry(Saved, last.log[n].componentName, last.log[n].key)
         = LastAddedIn(last.log, last.log[n].componentName, last.log[n].key)
  /\ last.loaded.units = other.translations.units =>
       Persisted(last.log) /\ Persisted(other.log)

SavedUnderRoot == options.translationRoot # "" /\ writes = 1

\* The top-level keys the catalog file had before the run, but for the
\* configured root key.
OtherRoots == DOMAIN previous.disk.roots \ {options.translationRoot}

\* C22 as stated: after a save under a root key, every other top-level key
\* the catalog file had before the run is in the file with the same
\* contents.
C22_OtherRootsKept ==
  SavedUnderRoot =>
    \A r \in OtherRoots :
      r \in DOMAIN disk.roots /\ disk.roots[r] = previous.disk.roots[r]

\* C22 as amended: a save under a root key replaces the whole file by an
\* object with that root key alone, which holds the catalog of the run:
\* every other top-level key the file had before the run is gone.
C22_OnlyTheRootIsWritten ==
  SavedUnderRoot =>
    /\ disk.exists /\ disk.valid
    /\ disk.units = EmptyObject
    /\ DOMAIN disk.roots \subseteq {options.translationRoot}
    /\ translations.defined =>
         /\ DOMAIN disk.roots = {options.translationRoot}
         /\ disk.roots[options.translationRoot] = translations.units
    /\ \A r \in OtherRoots : r \notin DOMAIN disk.roots

\* A run under the root key "en" has ended on a catalog file that had the
\* root keys "en" and "fr": the file has the root key "en" alone, with the
\* loaded entries and the new one.
C22_Witness ==
  /\ pc = "done"
  /\ options.translationRoot = "en"
  /\ previous.disk = JsonFile(EmptyObject, ("en" :> priorUnits) @@ ("fr" :> otherUnits))
  /\ DOMAIN disk.roots = {"en"}
  /\ Entry(disk.roots["en"], kProfile, kBye) = <<sBye>>
  /\ Entry(disk.roots["en"], kWelcome, kHelloWorld) = <<sHelloWorld>>

(***************************************************************************)
(* C23                                                                     *)
(***************************************************************************)
\* The functions that own a candidate this run has replaced.
Owners == {OwnerOf(log[n].path) : n \in DOMAIN log}

\* The binding is a statement of the body of function f.
HookInOwnBody(f) == useTranslationHook \in Range(root.functions[f].body)

\* The binding is a statement of the body of a function nested inside f.
HookInNested(f) ==
  \E g \in DOMAIN root.functions :
    /\ g # f
    /\ IsInside(root.functions, g, f)
    /\ useTranslationHook \in Range(root.functions[g].body)

\* C23 as stated: every function that owns a replaced candidate has the
\* binding as a statement of its own body.
C23_EveryOwnerHasOwnHook ==
  \A f \in Owners : HookInOwnBody(f)

\* C23 as amended: every function that owns a replaced candidate has the
\* binding in its own body or in the body of a function nested inside it;
\* it has none of its own when a nested function had the call before its
\* own first candidate was visited, as when a callback's candidate comes
\* before the component's.
C23_OwnerHasHookInside ==
  \A f \in Owners : HookInOwnBody(f) \/ HookInNested(f)

\* A run has ended in which a callback inside Welcome and then Welcome had
\* a candidate replaced: the callback has the binding, Welcome has none of
\* its own.
C23_Witness ==
  /\ pc = "done"
  /\ file.functions = <<fnWelcome, fnCallback(1)>>
  /\ Owners = {1, 2}
  /\ HookInOwnBody(2)
  /\ ~HookInOwnBody(1)


(***************************************************************************)
(* C24                                                                     *)
(***************************************************************************)
\* The catalog file this run found is JSON and has no entry under the
\* configured root key.
RootAbsent ==
  /\ options.translationRoot # ""
  /\ previous.disk.exists /\ previous.disk.valid
  /\ ~Has(previous.disk.roots, options.translationRoot)

\* C24: when the catalog file is JSON but has no entry under the configured
\* root key, the run goes as with an empty catalog: it never throws, the
\* catalog it loaded is the empty one, and once it is done the saved file
\* holds under the root key exactly the entries the run extracted.
C24_AbsentRootIsEmptyCatalog ==
  (OptionsComplete /\ RootAbsent) =>
    /\ pc # "error"
    /\ pc # "start" => loaded = Object(EmptyObject, EmptyObject)
    /\ pc = "done" =>
         /\ Has(disk.roots, options.translationRoot)
         /\ CatalogKeys(Saved) = LogKeys

\* What the code does instead: readTranslations returns undefined, and the
\* run throws at its first candidate with an owning unit, before anything is
\* written, or else at the summary, after a file without the root key has been
\* written.
C24_AbsentRootThrows ==
  (OptionsComplete /\ RootAbsent) =>
    /\ pc # "done"
    /\ pc # "start" => ~loaded.defined /\ ~translations.defined
    /\ log = <<>>
    /\ root \in {NoTree, file}
    /\ pc = "error" =>
         \/ writes = 0 /\ disk = previous.disk
         \/ writes = 1 /\ disk = JsonFile(EmptyObject, EmptyObject)

\* The run found a catalog with another root only and has thrown at its
\* first candidate; the catalog file is as it was.
C24_ThrownAtFirstCandidate ==
  /\ RootAbsent
  /\ pc = "error"
  /\ writes = 0
  /\ disk = JsonFile(EmptyObject, "fr" :> otherUnits)
  /\ work # <<>>

\* The run found a catalog with another root only, had nothing to extract,
\* and has thrown after writing a file that has lost the other root.
C24_ThrownAtSummary ==
  /\ RootAbsent
  /\ pc = "error"
  /\ writes = 1
  /\ previous.disk = JsonFile(EmptyObject, "fr" :> otherUnits)
  /\ disk = JsonFile(EmptyObject, EmptyObject)


(***************************************************************************)
(* C25                                                                     *)
(***************************************************************************)
\* The replaced templates with at least one expression.
ReplacedTemplates ==
  {i \in DOMAIN root.nodes :
     IsTemplateNode(file.nodes[i]) /\ Replaced(i) /\ file.nodes[i].expressions # <<>>}

\* The names of the bindings of the replaced template i, in order.
ParameterNames(i) ==
  [n \in DOMAIN root.nodes[i].tArgs[2].properties |->
     root.nodes[i].tArgs[2].properties[n].key]

\* The expression is a bare identifier or a member access.
IsNamed(expression) == expression.type \in {"Identifier", "MemberExpression"}

\* The n-th and the m-th expression of a template are given the same name:
\* two identifiers or member accesses whose sources end alike after the last
\* dot, or an identifier or member access whose source ends in "var" and the
\* position of the other, which is neither.
SameName(e1, n, e2, m) ==
  \/ IsNamed(e1) /\ IsNamed(e2) /\ AfterLastDot(e1.source) = AfterLastDot(e2.source)
  \/ IsNamed(e1) /\ ~IsNamed(e2) /\ AfterLastDot(e1.source) = PositionalNameOf(m)
  \/ ~IsNamed(e1) /\ IsNamed(e2) /\ PositionalNameOf(n) = AfterLastDot(e2.source)

\* C25 as stated: within one template the parameter names of the expressions
\* are pairwise distinct, so the bindings have no duplicate key and the text
\* has one distinct placeholder per expression.
C25_NamesPairwiseDistinct ==
  \A i \in ReplacedTemplates :
    /\ DOMAIN ParameterNames(i) = DOMAIN file.nodes[i].expressions
    /\ \A n, m \in DOMAIN ParameterNames(i) :
         n # m => ParameterNames(i)[n] # ParameterNames(i)[m]

\* C25 as amended: the names are not made distinct.  There is one binding and
\* one placeholder per expression, in order, but two expressions of a
\* template have the same name, and the text the same placeholder twice and
\* the bindings a duplicate key, exactly when both are identifiers or member
\* accesses whose sources end alike after the last dot (a.name and b.name),
\* or one of them ends in "var" and the position of the other, which is
\* neither.  Two positional names are distinct.
C25_NamesNotMadeDistinct ==
  \A i \in ReplacedTemplates :
    LET expressions == file.nodes[i].expressions
        names == ParameterNames(i)
    IN  /\ DOMAIN names = DOMAIN expressions
        /\ RecordedValue(i) =
             sanitizeText(Interleave(file.nodes[i].quasis,
                                     root.nodes[i].tArgs[2].properties, 1))
        /\ \A n, m \in DOMAIN names :
             n # m =>
               /\ (names[n] = names[m])
                    <=> SameName(expressions[n], n, expressions[m], m)
               /\ (~IsNamed(expressions[n]) /\ ~IsNamed(expressions[m]))
                    => names[n] # names[m]

\* `${a.name} and ${b.name}` has been replaced: the recorded text is
\* {{name}} and {{name}} and both bindings have the key name, the first
\* bound to a.name and the second to b.name.
C25_Witness ==
  \E i \in ReplacedTemplates :
    /\ file.nodes[i] = TemplateLiteral(tplSameNames, FALSE, 1)
    /\ i \in LogPaths
    /\ ParameterNames(i) = <<<<"n", "a", "m", "e">>, <<"n", "a", "m", "e">>>>
    /\ root.nodes[i].tArgs[2].properties[1].value = MemberExpression(<<"a", ".", "n", "a", "m", "e">>)
    /\ root.nodes[i].tArgs[2].properties[2].value = MemberExpression(<<"b", ".", "n", "a", "m", "e">>)
    /\ RecordedValue(i) = <<"{", "{", "n", "a", "m", "e", "}", "}", " ", "a", "n", "d", " ", "{", "{", "n", "a", "m", "e", "}", "}">>

\* `Hello ${var2} ${load()} ${save()}` has been replaced: the identifier and
\* the first call share the name var2, the second call is var3.
C25_PositionalWitness ==
  \E i \in ReplacedTemplates :
    /\ file.nodes[i] = TemplateLiteral(tplPositional, FALSE, 1)
    /\ ParameterNames(i) = <<<<"v", "a", "r", "2">>, <<"v", "a", "r", "2">>, <<"v", "a", "r", "3">>>>

====
